---- MODULE Spec2Model ----
(***************************************************************************)
(* WebRTCStream (xlangbinding): per-channel bounded frame buffers, the     *)
(* background delivery loop and the fan-out to the clients' sinks.         *)
(*                                                                         *)
(* Threads: any number of caller threads (pushFrame, pushFrame2,           *)
(* createPeer, handleOfferSync, the destructor), the transport, which      *)
(* opens and closes sinks, and the single worker thread running loop().    *)
(* A step of the model is a stretch of code that runs under one lock or    *)
(* touches no shared state.                                                *)
(***************************************************************************)
EXTENDS Integers, Sequences, FiniteSets, TLC

(***************************************************************************)
(* Bounds of the model.                                                    *)
(***************************************************************************)
MaxFrames == 2        \* maxFrames given to addChannel for every channel
MaxPushes == 3        \* accepted pushes in one behaviour, one channel registered
MaxClients == 2       \* createPeer calls in one behaviour, a data channel alone
MaxPushesBoth == 2    \* accepted pushes in one behaviour, two channels registered
MaxClientsMedia == 1  \* createPeer calls in one behaviour, a media channel registered
MaxPushesBytes == 1   \* accepted pushes in one behaviour, payloads of any bytes
MaxChannels == 2      \* addChannel calls in one behaviour

(***************************************************************************)
(* Program constants.                                                      *)
(***************************************************************************)
PayloadType == 109    \* payload type written into byte 1 of a media packet
Ssrc == 123456        \* synchronization source written into bytes 8..11
NalSps == 7
NalPps == 8
NalIdr == 5
NalMask == 32         \* data[0] & 0x1F  ==  data[0] % 32
MarkerBit == 128      \* 0x80
RtpHeaderLen == 12    \* bytes 0..11: the ssrc is the last field of the header

(***************************************************************************)
(* Channels.  std::map iterates its keys in sorted order: "a" < "d" < "v".  *)
(* "x" is an id no addChannel call ever registered.                        *)
(***************************************************************************)
ChanOrder == <<"a", "d", "v">>
ChanIds == {"a", "d", "v"}
UnknownIds == {"x"}
\* the sets of channels the program is set up with before the first push
Deployments == {{"d"}, {"v"}, {"d", "v"}, {"a", "v"}}
KindOf(id) == IF id = "d" THEN "data" ELSE IF id = "a" THEN "audio" ELSE "video"
DataIds == {id \in ChanIds : KindOf(id) = "data"}

(***************************************************************************)
(* Payloads.  A media payload is 12 bytes so that the header rewrite stays *)
(* inside it; byte 0 carries the NAL unit type in its low 5 bits.          *)
(***************************************************************************)
Pkt(b0, b1) == <<b0, b1, 0, 0, 0, 0, 0, 0, 0, 0, 0, 0>>
PSps == Pkt(103, 96)      \* 0x67: type 7
PPps == Pkt(104, 96)      \* 0x68: type 8
PIdr == Pkt(101, 224)     \* 0x65: type 5, marker bit set
PSlice == Pkt(65, 96)     \* 0x41: type 1
PAudio == Pkt(128, 111)   \* an audio packet
PMsg == <<1, 2, 3>>
PEmpty == <<>>
PayloadsFor(id) ==
    IF id = "v" THEN {PSps, PPps, PIdr, PSlice}
    ELSE IF id = "a" THEN {PAudio}
    ELSE {PEmpty, PMsg}

NoFrame == [data |-> <<>>, ts |-> 0]      \* a default-constructed EncodedFrame

VARIABLES
    channels,   \* id -> MediaChannel: kind, maxFrames, buffer, sps, pps, idr, gotIdr
    clients,    \* the vector of Client: pc, tracks, dataChannels
    sinkOpen,   \* the sinks (tracks, data channels) whose isOpen() is true
    offered,    \* connections whose offer has been handled
    running,    \* std::atomic<bool> running
    wpc,        \* where the worker is in loop()
    wi,         \* index of the channel the worker is at (hasFramesReady, loop)
    frame,      \* loop(): the peeked copy of the front frame
    ci,         \* broadcast(), broadcastData(): index of the client being served
    bj,         \* broadcast(): index of the channel of its inner loop
    held,       \* the mutexes the worker thread holds
    p2,         \* per caller thread, the pushFrame2 call it is in the middle of
                \* and the mutexes the thread holds
    sent,       \* broadcastData(): its local flag
    dpc,        \* where the destructor is
    npushed,    \* pushes accepted so far; the next push carries ts = npushed + 1
    sincePop,   \* history: per channel, the buffer as of the worker's last removal
                \* followed by the frames pushed since
    passLog,    \* history: the send calls of the current fan-out call, in order
    sentTs,     \* history: per client and data channel, the ts of the items the
                \* client's sink accepted, in the order of the send calls
    stale,      \* history: the channels whose delivery reported "not delivered"
                \* with no push and no shutdown signal since
    startLen,   \* history: per channel, the buffer length when the pass started
    pops,       \* history: frames removed from the current channel in this pass
                \* after a delivery
    ordered     \* history: every lock so far was taken in the nesting order

vars == <<channels, clients, sinkOpen, offered, running, wpc, wi, frame, ci, sent,
          dpc, npushed, sincePop, passLog, sentTs, bj, held, p2, stale, startLen,
          pops, ordered>>

(***************************************************************************)
(* Pure helpers.                                                           *)
(***************************************************************************)
Last(s) == s[Len(s)]
Front(s) == s[1]
NalType(data) == data[1] % NalMask

\* the last n elements of s (all of s when it is shorter)
LastN(s, n) == IF Len(s) <= n THEN s ELSE SubSeq(s, Len(s) - n + 1, Len(s))
Min(a, b) == IF a <= b THEN a ELSE b

\* if (buffer.size() >= maxFrames) buffer.pop_front(); buffer.push_back(f);
\* variants: "size > maxFrames", pop_back for pop_front, push_front for push_back
EvictAppend_OffByOne(buf, max, f) ==
    Append(IF Len(buf) > max THEN Tail(buf) ELSE buf, f)
EvictAppend_PopBack(buf, max, f) ==
    Append(IF Len(buf) >= max THEN SubSeq(buf, 1, Len(buf) - 1) ELSE buf, f)
EvictAppend_PushFront(buf, max, f) ==
    <<f>> \o (IF Len(buf) >= max THEN Tail(buf) ELSE buf)
EvictAppend(buf, max, f) ==
    Append(IF Len(buf) >= max THEN Tail(buf) ELSE buf, f)

\* byte 1 := marker | 109 ; rtp->setSsrc(123456) writes bytes 8..11 big-endian
SsrcBytes ==
    << (Ssrc \div 16777216) % 256, (Ssrc \div 65536) % 256,
       (Ssrc \div 256) % 256, Ssrc % 256 >>
\* variant: the payload type alone, the marker bit dropped
RtpRewrite_DropsMarker(data) ==
    [i \in 1..Len(data) |->
        IF i = 2 THEN PayloadType
        ELSE IF i \in 9..12 THEN SsrcBytes[i - 8]
        ELSE data[i]]
RtpRewrite(data) ==
    [i \in 1..Len(data) |->
        IF i = 2 THEN (IF data[2] >= MarkerBit THEN MarkerBit ELSE 0) + PayloadType
        ELSE IF i \in 9..12 THEN SsrcBytes[i - 8]
        ELSE data[i]]

\* a sink is identified by the connection it was created on and the channel
Sink(p, c) == <<p, c>>

NewChannel(id) ==
    [kind |-> KindOf(id), maxFrames |-> MaxFrames, buffer |-> <<>>,
     sps |-> <<>>, pps |-> <<>>, idr |-> <<>>, gotIdr |-> FALSE]

NewClient(p) == [pc |-> p, tracks |-> <<>>, dataChannels |-> <<>>]

\* tracks and dataChannels are maps channelId -> sink; <<>> is the empty map
Has(m, c) == c \in DOMAIN m
Put(m, c, s) == [x \in (DOMAIN m) \cup {c} |-> IF x = c THEN s ELSE m[x]]

\* std::lock_guard, std::unique_lock: the set of mutexes a thread holds.
\* Guarded is a scope that opens and closes inside one step.
\* variant: the scope's end does not release
Unlock_Keeps(h, l) == h
Lock(h, l) == h \cup {l}
Unlock(h, l) == h \ {l}
Guarded(h, l) == Unlock(Lock(h, l), l)

\* the order in which loop() nests its locks: the wait lock (cvMutex), the client
\* registry lock (clientMutex), a channel's mutex; a lock is taken in order when
\* every lock the thread holds comes before it
Rank(l) == IF l = "cvMutex" THEN 1 ELSE IF l = "clientMutex" THEN 2 ELSE 3
InOrder(h, l) == \A x \in h : Rank(x) < Rank(l)

\* caller threads that may be inside pushFrame2 at the same time
Callers == {1, 2}
NoCall == [pc |-> "none", id |-> "", data |-> <<>>, held |-> {}]

WorkerGone == wpc \in {"exited", "aborted"}
\* an exception that leaves the thread function calls std::terminate
ProcessAlive == wpc # "aborted" /\ dpc # "done"

Init ==
    /\ \E S \in Deployments : channels = [id \in S |-> NewChannel(id)]
    /\ clients = <<>>
    /\ sinkOpen = {}
    /\ offered = {}
    /\ running = TRUE
    /\ wpc = "top"
    /\ wi = 1
    /\ frame = NoFrame
    /\ ci = 1
    /\ sent = FALSE
    /\ dpc = "none"
    /\ npushed = 0
    /\ sincePop = [id \in ChanIds |-> <<>>]
    /\ passLog = <<>>
    /\ sentTs = [k \in 1..MaxClients |-> [id \in DataIds |-> <<>>]]
    /\ bj = 1
    /\ held = {}
    /\ p2 = [t \in Callers |-> NoCall]
    /\ stale = {}
    /\ startLen = [id \in ChanIds |-> 0]
    /\ pops = 0
    /\ ordered = TRUE

(***************************************************************************)
(* Caller threads.                                                         *)
(***************************************************************************)

\* cv.notify_one() / cv.notify_all(): a thread blocked in cv.wait re-acquires
\* the wait lock and evaluates the predicate again; a thread that is not
\* blocked does not notice the call.
Notified(w) == IF w = "waiting" THEN "pred" ELSE w
NotifiedHeld(w, h) == IF w = "waiting" THEN Lock(h, "cvMutex") ELSE h

\* pushFrame2: the NAL type of the first byte selects the cache entry
\* variant: a new parameter set starts a new stream and clears the flag
CacheUpdate_SpsClearsFlag(ch, data) ==
    IF data = <<>> THEN ch
    ELSE IF NalType(data) = NalSps THEN [ch EXCEPT !.sps = data, !.gotIdr = FALSE]
    ELSE IF NalType(data) = NalPps THEN [ch EXCEPT !.pps = data]
    ELSE IF NalType(data) = NalIdr THEN [ch EXCEPT !.idr = data, !.gotIdr = TRUE]
    ELSE ch
CacheUpdate(ch, data) ==
    IF data = <<>> THEN ch
    ELSE IF NalType(data) = NalSps THEN [ch EXCEPT !.sps = data]
    ELSE IF NalType(data) = NalPps THEN [ch EXCEPT !.pps = data]
    ELSE IF NalType(data) = NalIdr THEN [ch EXCEPT !.idr = data, !.gotIdr = TRUE]
    ELSE ch

\* the body shared by pushFrame and pushFrame2, run under ch->mutex
Enqueue(ch, data, ts) ==
    [ch EXCEPT !.buffer = EvictAppend(@, ch.maxFrames, [data |-> data, ts |-> ts])]

\* the channel map after pushFrame(id, data, _, ts): channels.find(id), and
\* nothing when it is channels.end()
\* variant: channels[id] for channels.find(id), which inserts a channel
AfterPushFrame_Inserts(chs, id, data, ts) ==
    LET all == [c \in (DOMAIN chs) \cup {id} |->
                   IF c \in DOMAIN chs THEN chs[c] ELSE NewChannel(c)]
    IN  [all EXCEPT ![id] = Enqueue(@, data, ts)]
AfterPushFrame(chs, id, data, ts) ==
    IF id \notin DOMAIN chs THEN chs
    ELSE [chs EXCEPT ![id] = Enqueue(@, data, ts)]

\* the same for pushFrame2, which also updates the cache
AfterPushFrame2(chs, id, data, ts) ==
    IF id \notin DOMAIN chs THEN chs
    ELSE [chs EXCEPT ![id] = Enqueue(CacheUpdate(@, data), data, ts)]

\* the mutexes pushFrame and pushFrame2 acquire: ch->mutex of the target
PushLocks(id) == {id}

PushLimit == IF Cardinality(DOMAIN channels) > 1 THEN MaxPushesBoth ELSE MaxPushes
\* two clients where the fan-out is per item (a data channel alone)
ClientLimit == IF DOMAIN channels = {"d"} THEN MaxClients ELSE MaxClientsMedia

\* pushFrame2 calls that have started and not yet enqueued
Pending == Cardinality({t \in Callers : p2[t].pc # "none"})

\* what an accepted push does besides the channel map: the history and
\* cv.notify_one()
Accepted(id, data) ==
    /\ npushed' = npushed + 1
    /\ sincePop' = [sincePop EXCEPT
                       ![id] = Append(@, [data |-> data, ts |-> npushed + 1])]
    /\ wpc' = Notified(wpc)
    /\ held' = NotifiedHeld(wpc, held)
    /\ ordered' = (ordered /\ (wpc = "waiting" => InOrder(held, "cvMutex")))
    /\ stale' = {}

PushFrame(id, data) ==
    /\ ProcessAlive
    /\ id \in DOMAIN channels =>
          (npushed + Pending < PushLimit /\ PushLocks(id) \cap held = {})
    /\ channels' = AfterPushFrame(channels, id, data, npushed + 1)
    /\ IF id \in DOMAIN channels
         THEN Accepted(id, data)
         ELSE UNCHANGED <<npushed, sincePop, wpc, held, ordered, stale>>
    /\ UNCHANGED <<clients, sinkOpen, offered, running, wi, frame, ci, sent,
                   dpc, passLog, sentTs, bj, p2, startLen, pops>>

\* pushFrame2 called by one producer thread at a time
PushFrame2(id, data) ==
    /\ ProcessAlive
    /\ Pending = 0
    /\ id \in DOMAIN channels =>
          (npushed < PushLimit /\ PushLocks(id) \cap held = {})
    /\ channels' = AfterPushFrame2(channels, id, data, npushed + 1)
    /\ IF id \in DOMAIN channels
         THEN Accepted(id, data)
         ELSE UNCHANGED <<npushed, sincePop, wpc, held, ordered, stale>>
    /\ UNCHANGED <<clients, sinkOpen, offered, running, wi, frame, ci, sent,
                   dpc, passLog, sentTs, bj, p2, startLen, pops>>

(***************************************************************************)
(* pushFrame2 called by several threads at once, statement by statement:   *)
(* the lookup (lines 342-345), the cache update (347-358, no lock held),   *)
(* the enqueue under ch->mutex and the notify (360-365).                   *)
(***************************************************************************)
CacheField(data) ==
    IF data = <<>> THEN "none"
    ELSE IF NalType(data) = NalSps THEN "sps"
    ELSE IF NalType(data) = NalPps THEN "pps"
    ELSE IF NalType(data) = NalIdr THEN "idr"
    ELSE "none"

\* thread t is between line 347 and line 358 and assigns a cache entry of id
WritesCache(t, id) ==
    /\ p2[t].pc = "cache"
    /\ p2[t].id = id
    /\ CacheField(p2[t].data) # "none"

\* two unsynchronized assignments to one std::vector: any of the two values,
\* or bytes of both
Torn(d1, d2) == [i \in 1..Len(d1) |-> IF i <= Len(d1) \div 2 THEN d1[i]
                                      ELSE IF i <= Len(d2) THEN d2[i] ELSE d1[i]]
RaceOutcomes(d1, d2) == {d1, d2, Torn(d1, d2)}

PushFrame2Find(t, id, data) ==
    /\ ProcessAlive
    /\ p2[t].pc = "none"
    /\ id \in DOMAIN channels
    /\ npushed + Pending < PushLimit
    /\ p2' = [p2 EXCEPT ![t] = [pc |-> "cache", id |-> id, data |-> data,
                                 held |-> {}]]
    /\ UNCHANGED <<channels, clients, sinkOpen, offered, running, wpc, wi, frame, ci,
                   sent, dpc, npushed, sincePop, passLog, sentTs, bj, held, ordered, stale,
                   startLen, pops>>

PushFrame2Cache(t) ==
    /\ ProcessAlive
    /\ p2[t].pc = "cache"
    /\ LET id == p2[t].id
           racing == {u \in Callers \ {t} :
                         /\ WritesCache(u, id)
                         /\ CacheField(p2[u].data) = CacheField(p2[t].data)}
       IN  IF racing = {}
           THEN channels' = [channels EXCEPT ![id] = CacheUpdate(@, p2[t].data)]
           ELSE \E u \in racing : \E val \in RaceOutcomes(p2[t].data, p2[u].data) :
                    channels' = [channels EXCEPT ![id] = CacheUpdate(@, val)]
    /\ p2' = [p2 EXCEPT ![t].pc = "lock"]
    /\ UNCHANGED <<clients, sinkOpen, offered, running, wpc, wi, frame, ci,
                   sent, dpc, npushed, sincePop, passLog, sentTs, bj, held, ordered, stale,
                   startLen, pops>>

PushFrame2Enqueue(t) ==
    /\ ProcessAlive
    /\ p2[t].pc = "lock"
    /\ PushLocks(p2[t].id) \cap held = {}
    /\ channels' = [channels EXCEPT
                       ![p2[t].id] = Enqueue(@, p2[t].data, npushed + 1)]
    /\ Accepted(p2[t].id, p2[t].data)
    /\ p2' = [p2 EXCEPT ![t] = NoCall]
    /\ UNCHANGED <<clients, sinkOpen, offered, running, wi, frame, ci, sent,
                   dpc, passLog, sentTs, bj, startLen, pops>>

\* broadcast() and broadcastData() hold clientMutex from entry to return
ClientMutexHeld == "clientMutex" \in held

CreatePeer ==
    /\ ProcessAlive
    /\ ~ClientMutexHeld
    /\ Len(clients) < ClientLimit
    /\ clients' = Append(clients, NewClient(Len(clients) + 1))
    /\ UNCHANGED <<channels, sinkOpen, offered, running, wpc, wi, frame, ci, sent,
                   dpc, npushed, sincePop, passLog, sentTs, bj, held, ordered, p2, stale,
                   startLen, pops>>

\* handleOfferSync(pc, sdp): a track for every video channel when the offer has a
\* video section, a track for every audio channel when it has an audio section,
\* a data channel for every data channel when it has an application section;
\* each is stored in clients.back()
OfferSinks(cl, p, hasVideo, hasAudio, hasData) ==
    LET ts == {c \in DOMAIN channels :
                  \/ channels[c].kind = "video" /\ hasVideo
                  \/ channels[c].kind = "audio" /\ hasAudio}
        ds == {c \in DOMAIN channels : channels[c].kind = "data" /\ hasData}
    IN  [cl EXCEPT
           !.tracks = [c \in (DOMAIN @) \cup ts |->
                          IF c \in ts THEN Sink(p, c) ELSE @[c]],
           !.dataChannels = [c \in (DOMAIN @) \cup ds |->
                          IF c \in ds THEN Sink(p, c) ELSE @[c]]]

HandleOfferSync(p, hasVideo, hasAudio, hasData) ==
    /\ ProcessAlive
    /\ ~ClientMutexHeld
    /\ p \in 1..Len(clients)
    /\ p \notin offered
    /\ clients' = [clients EXCEPT
                      ![Len(clients)] = OfferSinks(@, p, hasVideo, hasAudio, hasData)]
    /\ offered' = offered \cup {p}
    /\ UNCHANGED <<channels, sinkOpen, running, wpc, wi, frame, ci, sent,
                   dpc, npushed, sincePop, passLog, sentTs, bj, held, ordered, p2, stale,
                   startLen, pops>>

\* the sinks some client entry holds
Registered ==
    UNION {{clients[k].tracks[c] : c \in DOMAIN clients[k].tracks}
           \cup {clients[k].dataChannels[c] : c \in DOMAIN clients[k].dataChannels}
           : k \in 1..Len(clients)}

\* the transport opens and closes a sink at any time
SinkOpens(s) ==
    /\ ProcessAlive
    /\ s \in Registered \ sinkOpen
    /\ sinkOpen' = sinkOpen \cup {s}
    /\ UNCHANGED <<channels, clients, offered, running, wpc, wi, frame, ci, sent,
                   dpc, npushed, sincePop, passLog, sentTs, bj, held, ordered, p2, stale,
                   startLen, pops>>

SinkCloses(s) ==
    /\ ProcessAlive
    /\ s \in sinkOpen
    /\ sinkOpen' = sinkOpen \ {s}
    /\ UNCHANGED <<channels, clients, offered, running, wpc, wi, frame, ci, sent,
                   dpc, npushed, sincePop, passLog, sentTs, bj, held, ordered, p2, stale,
                   startLen, pops>>

(***************************************************************************)
(* ~WebRTCStream(): running = false; cv.notify_all(); worker.join().       *)
(***************************************************************************)
DtorSetRunning ==
    /\ ProcessAlive
    /\ dpc = "none"
    /\ running' = FALSE
    /\ dpc' = "set"
    /\ UNCHANGED <<channels, clients, sinkOpen, offered, wpc, wi, frame, ci, sent,
                   npushed, sincePop, passLog, sentTs, bj, held, ordered, p2, stale,
                   startLen, pops>>

DtorNotifyAll ==
    /\ ProcessAlive
    /\ dpc = "set"
    /\ wpc' = Notified(wpc)
    /\ held' = NotifiedHeld(wpc, held)
    /\ ordered' = (ordered /\ (wpc = "waiting" => InOrder(held, "cvMutex")))
    /\ stale' = {}
    /\ dpc' = "join"
    /\ UNCHANGED <<channels, clients, sinkOpen, offered, running, wi, frame, ci, sent,
                   npushed, sincePop, passLog, sentTs, bj, p2, startLen, pops>>

DtorJoin ==
    /\ dpc = "join"
    /\ wpc = "exited"
    /\ dpc' = "done"
    /\ UNCHANGED <<channels, clients, sinkOpen, offered, running, wpc, wi, frame, ci,
                   sent, npushed, sincePop, passLog, sentTs, bj, held, ordered, p2, stale,
                   startLen, pops>>

(***************************************************************************)
(* The worker thread: loop().                                              *)
(***************************************************************************)

\* for (auto &kv : channels): the registered ids in key order
Order == SelectSeq(ChanOrder, LAMBDA id : id \in DOMAIN channels)
NChan == Len(Order)
Cur == Order[wi]

\* leaving the inner for(;;) of loop(): the next channel, or the end of the pass
\* variant: the break leaves the loop over the channels as well
NextChannel_EndsPass ==
    /\ wpc' = "top" /\ wi' = 1
    /\ frame' = NoFrame
    /\ ci' = 1
    /\ bj' = 1
    /\ sent' = FALSE
    /\ passLog' = <<>>
    /\ pops' = 0
    /\ startLen' = [id \in ChanIds |-> 0]
NextChannel ==
    /\ IF wi < NChan
         THEN wpc' = "peek" /\ wi' = wi + 1 /\ UNCHANGED startLen
         ELSE wpc' = "top" /\ wi' = 1 /\ startLen' = [id \in ChanIds |-> 0]
    /\ frame' = NoFrame
    /\ ci' = 1
    /\ bj' = 1
    /\ sent' = FALSE
    /\ passLog' = <<>>
    /\ pops' = 0

\* while (running); std::unique_lock<std::mutex> waitlk(cvMutex)
WorkerTop ==
    /\ wpc = "top"
    /\ IF running
         THEN wpc' = "pred" /\ held' = Lock(held, "cvMutex")
              /\ ordered' = (ordered /\ InOrder(held, "cvMutex"))
         ELSE wpc' = "exited" /\ UNCHANGED <<held, ordered>>
    /\ UNCHANGED <<channels, clients, sinkOpen, offered, running, wi, frame, ci, sent,
                   dpc, npushed, sincePop, passLog, sentTs, bj, p2, stale,
                   startLen, pops>>

\* cv.wait(waitlk, pred): the predicate's first operand, !running
PredRunning ==
    /\ wpc = "pred"
    /\ IF ~running
         THEN wpc' = "woke" /\ wi' = 1
         ELSE IF NChan = 0
              THEN wpc' = "block" /\ wi' = 1
              ELSE wpc' = "scan" /\ wi' = 1
    /\ UNCHANGED <<channels, clients, sinkOpen, offered, running, frame, ci, sent,
                   dpc, npushed, sincePop, passLog, sentTs, bj, held, ordered, p2, stale,
                   startLen, pops>>

\* hasFramesReady(): one channel looked at under its mutex
HasFramesReadyStep ==
    /\ wpc = "scan"
    /\ held' = Guarded(held, Cur)
    /\ ordered' = (ordered /\ InOrder(held, Cur))
    /\ IF channels[Cur].buffer # <<>>
         THEN wpc' = "woke" /\ wi' = 1
         ELSE IF wi < NChan
              THEN wpc' = "scan" /\ wi' = wi + 1
              ELSE wpc' = "block" /\ wi' = 1
    /\ UNCHANGED <<channels, clients, sinkOpen, offered, running, frame, ci, sent,
                   dpc, npushed, sincePop, passLog, sentTs, bj, p2, stale,
                   startLen, pops>>

\* the predicate was false: cv.wait releases the wait lock and blocks
WaitBlock ==
    /\ wpc = "block"
    /\ wpc' = "waiting"
    /\ held' = Unlock(held, "cvMutex")
    /\ UNCHANGED ordered
    /\ UNCHANGED <<channels, clients, sinkOpen, offered, running, wi, frame, ci, sent,
                   dpc, npushed, sincePop, passLog, sentTs, bj, p2, stale,
                   startLen, pops>>

\* a condition variable may wake without a notification
SpuriousWake ==
    /\ wpc = "waiting"
    /\ wpc' = "pred"
    /\ held' = Lock(held, "cvMutex")
    /\ ordered' = (ordered /\ InOrder(held, "cvMutex"))
    /\ UNCHANGED <<channels, clients, sinkOpen, offered, running, wi, frame, ci, sent,
                   dpc, npushed, sincePop, passLog, sentTs, bj, p2, stale,
                   startLen, pops>>

\* if (!running) break; waitlk.unlock(); a pass over the channels starts
AfterWait ==
    /\ wpc = "woke"
    /\ held' = Unlock(held, "cvMutex")
    /\ UNCHANGED ordered
    /\ IF ~running
         THEN wpc' = "exited" /\ wi' = 1 /\ UNCHANGED startLen
         ELSE IF NChan = 0
              THEN wpc' = "top" /\ wi' = 1 /\ UNCHANGED startLen
              ELSE /\ wpc' = "peek" /\ wi' = 1
                   /\ startLen' = [id \in ChanIds |->
                                     IF id \in DOMAIN channels
                                     THEN Len(channels[id].buffer) ELSE 0]
    /\ UNCHANGED <<channels, clients, sinkOpen, offered, running, frame, ci, sent,
                   dpc, npushed, sincePop, passLog, sentTs, bj, p2, stale, pops>>

\* peek the front under ch->mutex, then choose what to do with the copy;
\* broadcast() and broadcastData() start by taking clientMutex
Peek ==
    /\ wpc = "peek"
    /\ IF channels[Cur].buffer = <<>>
         THEN /\ NextChannel
              /\ held' = Guarded(held, Cur)
              /\ ordered' = (ordered /\ InOrder(held, Cur))
         ELSE /\ frame' = Front(channels[Cur].buffer)
              /\ wpc' = IF frame'.data = <<>> THEN "popempty"
                         ELSE IF channels[Cur].kind = "data" THEN "bdata"
                         ELSE "bcast"
              /\ held' = IF frame'.data = <<>> THEN Guarded(held, Cur)
                          ELSE Lock(Guarded(held, Cur), "clientMutex")
              /\ ordered' = (/\ ordered
                              /\ InOrder(held, Cur)
                              /\ frame'.data # <<>> =>
                                    InOrder(Guarded(held, Cur), "clientMutex"))
              /\ ci' = 1
              /\ bj' = 1
              /\ sent' = FALSE
              /\ passLog' = <<>>
              /\ UNCHANGED <<wi, startLen, pops>>
    /\ UNCHANGED <<channels, clients, sinkOpen, offered, running, dpc, npushed,
                   sincePop, sentTs, p2, stale>>

\* ch->buffer.pop_front() under ch->mutex; on an empty deque it is undefined
\* variant: the front frame stays in the buffer
PopFront_Keeps(w) ==
    /\ held' = Guarded(held, Cur)
    /\ ordered' = (ordered /\ InOrder(held, Cur))
    /\ wpc' = w
    /\ frame' = NoFrame
    /\ UNCHANGED <<channels, sincePop>>
PopFront(w) ==
    /\ held' = Guarded(held, Cur)
    /\ ordered' = (ordered /\ InOrder(held, Cur))
    /\ IF channels[Cur].buffer = <<>>
       THEN /\ wpc' = "ub"
            /\ UNCHANGED <<channels, sincePop, frame>>
       ELSE /\ channels' = [channels EXCEPT ![Cur].buffer = Tail(@)]
            /\ sincePop' = [sincePop EXCEPT ![Cur] = Tail(channels[Cur].buffer)]
            /\ wpc' = w
            /\ frame' = NoFrame

\* if (frame.data.empty()) { pop_front(); continue; }
PopEmpty ==
    /\ wpc = "popempty"
    /\ PopFront("peek")
    /\ UNCHANGED <<clients, sinkOpen, offered, running, wi, ci, sent, dpc, npushed,
                   passLog, sentTs, bj, p2, stale, startLen, pops>>

\* if (delivered) { pop_front(); }  and around the for(;;) again
PopDelivered ==
    /\ wpc = "pop"
    /\ PopFront("peek")
    /\ pops' = IF channels[Cur].buffer = <<>> THEN pops ELSE pops + 1
    /\ UNCHANGED <<clients, sinkOpen, offered, running, wi, ci, sent, dpc, npushed,
                   passLog, sentTs, bj, p2, stale, startLen>>

(***************************************************************************)
(* broadcastData(channelId, data): one client per step, and a step for the *)
(* send call to return.  dc->send is called outside any try block: an      *)
(* exception it throws leaves broadcastData, loop() and the thread         *)
(* function.                                                               *)
(***************************************************************************)
DataSinkOpen(k, c) ==
    /\ Has(clients[k].dataChannels, c)
    /\ clients[k].dataChannels[c] \in sinkOpen

SendOutcomes == {"ok", "throw"}

\* a send call has been made and has not returned
Sending == wpc \in {"dsend", "msend"}

\* the frame pushed to channel c last
Newest(c) == IF sincePop[c] = <<>> THEN NoFrame ELSE Last(sincePop[c])

BroadcastDataClient ==
    /\ wpc = "bdata"
    /\ ci <= Len(clients)
    /\ IF DataSinkOpen(ci, Cur)
         THEN /\ passLog' = Append(passLog,
                              [client |-> ci, sink |-> clients[ci].dataChannels[Cur],
                               ch |-> Cur, frame |-> frame, data |-> frame.data,
                               sps |-> <<>>, pps |-> <<>>, newest |-> Newest(Cur)])
              /\ wpc' = "dsend"
              /\ UNCHANGED ci
         ELSE /\ ci' = ci + 1
              /\ UNCHANGED <<wpc, passLog>>
    /\ UNCHANGED <<channels, clients, sinkOpen, offered, running, wi, frame, sent, dpc,
                   npushed, sincePop, sentTs, bj, held, ordered, p2, stale, startLen, pops>>

\* dc->send(bin) returns, or throws; sent = true
DcSendReturns ==
    /\ wpc = "dsend"
    /\ \E outcome \in SendOutcomes :
          IF outcome = "ok"
          THEN /\ sent' = TRUE
               /\ ci' = ci + 1
               /\ sentTs' = [sentTs EXCEPT ![ci][Cur] = Append(@, frame.ts)]
               /\ wpc' = "bdata"
          ELSE /\ wpc' = "aborted"
               /\ UNCHANGED <<sent, ci, sentTs>>
    /\ UNCHANGED <<channels, clients, sinkOpen, offered, running, wi, frame, dpc,
                   npushed, sincePop, passLog, bj, held, ordered, p2, stale, startLen, pops>>

\* return sent;  delivered = sent;  if (delivered) pop else break
BroadcastDataReturn ==
    /\ wpc = "bdata"
    /\ ci > Len(clients)
    /\ held' = Unlock(held, "clientMutex")
    /\ UNCHANGED ordered
    /\ IF sent
         THEN /\ wpc' = "pop"
              /\ ci' = 1
              /\ sent' = FALSE
              /\ passLog' = <<>>
              /\ UNCHANGED <<wi, frame, bj, stale, startLen, pops>>
         ELSE /\ NextChannel
              /\ stale' = stale \cup {Cur}
    /\ UNCHANGED <<channels, clients, sinkOpen, offered, running, dpc, npushed,
                   sincePop, sentTs, p2>>

(***************************************************************************)
(* broadcast(): for every client, for every channel, the latest frame.     *)
(* One client and one channel per step, and a step for the send call to    *)
(* return.  track->send is inside try/catch: whether it returns or throws  *)
(* std::exception, the loop goes on to the next channel.                   *)
(***************************************************************************)
\* variant: the front of the buffer for its back
Latest_Front(c) ==
    IF channels[c].buffer = <<>> THEN NoFrame ELSE Front(channels[c].buffer)
Latest(c) == IF channels[c].buffer = <<>> THEN NoFrame ELSE Last(channels[c].buffer)

TrackOpen(k, c) ==
    /\ Has(clients[k].tracks, c)
    /\ clients[k].tracks[c] \in sinkOpen

MediaEntry(k, c) ==
    [client |-> k, sink |-> clients[k].tracks[c], ch |-> c, frame |-> Latest(c),
     data |-> RtpRewrite(Latest(c).data),
     sps |-> channels[c].sps, pps |-> channels[c].pps, newest |-> Newest(c)]

\* the end of the inner loop body: the next channel, or the next client
NextTrack ==
    IF bj < NChan
    THEN bj' = bj + 1 /\ UNCHANGED ci
    ELSE bj' = 1 /\ ci' = ci + 1

BroadcastClient ==
    /\ wpc = "bcast"
    /\ ci <= Len(clients)
    /\ held' = Guarded(held, Order[bj])
    /\ ordered' = (ordered /\ InOrder(held, Order[bj]))
    /\ LET c == Order[bj] IN
         IF Latest(c).data # <<>> /\ TrackOpen(ci, c)
         THEN IF Len(Latest(c).data) < RtpHeaderLen
              THEN \* the rewrite writes past the end of the packet: undefined
                   /\ wpc' = "ub"
                   /\ UNCHANGED <<ci, bj, passLog>>
              ELSE /\ passLog' = Append(passLog, MediaEntry(ci, c))
                   /\ wpc' = "msend"
                   /\ UNCHANGED <<ci, bj>>
         ELSE /\ NextTrack
              /\ UNCHANGED <<wpc, passLog>>
    /\ UNCHANGED <<channels, clients, sinkOpen, offered, running, wi, frame, sent, dpc,
                   npushed, sincePop, sentTs, p2, stale, startLen, pops>>

\* track->send(data) returns, or throws and the exception is caught
TrackSendReturns ==
    /\ wpc = "msend"
    /\ \E outcome \in SendOutcomes :
          /\ wpc' = "bcast"
          /\ NextTrack
    /\ UNCHANGED <<channels, clients, sinkOpen, offered, running, wi, frame, sent, dpc,
                   npushed, sincePop, passLog, sentTs, held, ordered, p2, stale, startLen,
                   pops>>

\* broadcast() returns nothing: delivered stays false and loop() breaks
BroadcastReturn ==
    /\ wpc = "bcast"
    /\ ci > Len(clients)
    /\ held' = Unlock(held, "clientMutex")
    /\ UNCHANGED ordered
    /\ NextChannel
    /\ stale' = stale \cup {Cur}
    /\ UNCHANGED <<channels, clients, sinkOpen, offered, running, dpc, npushed,
                   sincePop, sentTs, p2>>

(***************************************************************************)
(* Specifications.                                                         *)
(***************************************************************************)
Worker ==
    \/ WorkerTop
    \/ PredRunning
    \/ HasFramesReadyStep
    \/ WaitBlock
    \/ AfterWait
    \/ Peek
    \/ PopEmpty
    \/ PopDelivered
    \/ BroadcastDataClient
    \/ DcSendReturns
    \/ BroadcastDataReturn
    \/ BroadcastClient
    \/ TrackSendReturns
    \/ BroadcastReturn

\* a client joins: createPeer, the offer, and the transport opening the sinks
Joins ==
    \/ CreatePeer
    \/ \E p \in 1..MaxClients : HandleOfferSync(p, TRUE, TRUE, TRUE)
    \/ \E s \in Registered : SinkOpens(s)

\* everything but pushFrame2
Others ==
    \/ \E id \in ChanIds \cup UnknownIds : \E data \in PayloadsFor(id) :
            PushFrame(id, data)
    \/ Joins
    \/ \E s \in Registered : SinkCloses(s)
    \/ DtorSetRunning
    \/ DtorNotifyAll
    \/ DtorJoin
    \/ SpuriousWake
    \/ Worker

Next ==
    \/ \E id \in ChanIds \cup UnknownIds : \E data \in PayloadsFor(id) :
            PushFrame2(id, data)
    \/ Others

Spec == Init /\ [][Next]_vars

\* several producer threads inside pushFrame2, two channels registered
InitCache == Init /\ Cardinality(DOMAIN channels) > 1

NextCache ==
    \/ \E t \in Callers : \E id \in ChanIds : \E data \in PayloadsFor(id) :
            PushFrame2Find(t, id, data)
    \/ \E t \in Callers : PushFrame2Cache(t)
    \/ \E t \in Callers : PushFrame2Enqueue(t)
    \/ Others

SpecCache == InitCache /\ [][NextCache]_vars

(***************************************************************************)
(* Properties.                                                             *)
(***************************************************************************)

\* C1: in every reachable state every channel's buffer holds at most
\* maxFrames frames.
C1_BufferBounded ==
    \A id \in DOMAIN channels :
        Len(channels[id].buffer) <= channels[id].maxFrames

\* a push found the buffer full, evicted, and left it full
C1_Witness ==
    \E id \in DOMAIN channels :
        /\ Len(channels[id].buffer) = channels[id].maxFrames
        /\ Len(sincePop[id]) > channels[id].maxFrames

\* C2: with no removal by the worker in between, after n pushes the buffer is
\* the last min(n, maxFrames) pushed frames, in push order (so a push to a full
\* buffer drops exactly the front and appends at the back, and a push to a
\* buffer that is not full drops nothing).
C2_LastPushedInOrder ==
    \A id \in DOMAIN channels :
        channels[id].buffer =
            LastN(sincePop[id], Min(Len(sincePop[id]), channels[id].maxFrames))

\* maxFrames + 1 frames were pushed without a removal: the first is gone
C2_Witness ==
    \E id \in DOMAIN channels :
        /\ Len(sincePop[id]) = channels[id].maxFrames + 1
        /\ sincePop[id][1].ts = 1
        /\ channels[id].buffer = Tail(sincePop[id])

\* C3: the item the worker removes from a data channel is the item an open
\* sink has just accepted: when the worker is about to pop after a successful
\* broadcastData, the front of the buffer, if it has a payload, is the frame
\* that was sent.
C3_RemovesTheDeliveredItem ==
    (wpc = "pop" /\ channels[Cur].kind = "data")
        => /\ channels[Cur].buffer # <<>>
           /\ Front(channels[Cur].buffer).data # <<>>
                 => Front(channels[Cur].buffer) = frame

\* C4: a sync frame sent on a video sink while both parameter sets are cached
\* is the third of three consecutive send calls on that sink: the cached
\* SPS, the cached PPS, the frame.
C4_SyncAfterParameterSets ==
    \A i \in 1..Len(passLog) :
        LET e == passLog[i] IN
        ( /\ channels[e.ch].kind = "video"
          /\ NalType(e.frame.data) = NalIdr
          /\ e.sps # <<>>
          /\ e.pps # <<>> )
        => /\ i >= 3
           /\ passLog[i - 2].sink = e.sink
           /\ passLog[i - 2].data \in {e.sps, RtpRewrite(e.sps)}
           /\ passLog[i - 1].sink = e.sink
           /\ passLog[i - 1].data \in {e.pps, RtpRewrite(e.pps)}

\* C5: every send call on a video channel's sink is made after a push has set
\* the channel's gotIdr flag (the flag is never cleared).
C5_NoVideoBeforeSync ==
    \A i \in 1..Len(passLog) :
        channels[passLog[i].ch].kind = "video" => channels[passLog[i].ch].gotIdr

\* C6: a fan-out call never stops while a client it has not yet served holds
\* an open sink for the channel.
C6_FailureDoesNotStopFanOut ==
    (wpc = "aborted")
        => \A k \in (ci + 1)..Len(clients) : ~DataSinkOpen(k, Cur)

\* C7: the worker thread ends only after shutdown has been requested.
C7_WorkerEndsOnlyOnShutdown ==
    WorkerGone => ~running

\* the items sent to one client on one data channel, oldest send first
IsSorted(q) == \A i, j \in 1..Len(q) : i < j => q[i] <= q[j]

\* C8: for each data channel and each client, the items sent to the client's
\* sink are in push order (ts is the push order).
C8_DataInPushOrder ==
    \A k \in 1..MaxClients : \A id \in DataIds : IsSorted(sentTs[k][id])

\* one client has been sent two items of the channel
C8_Witness ==
    \E k \in 1..MaxClients : \E id \in DataIds : Len(sentTs[k][id]) >= 2

\* C9: the worker is not blocked in cv.wait while shutdown has not been
\* requested and some buffer holds a frame.
C9_NotBlockedWithFramesReady ==
    (wpc = "waiting" /\ running)
        => \A id \in DOMAIN channels : channels[id].buffer = <<>>

\* C10: once the destructor has signalled and is joining, the shutdown can
\* still make progress on its own: the worker has a step to take or the join
\* can return (no push is needed to get the worker out of cv.wait).
C10_ShutdownCompletes ==
    (dpc = "join" /\ wpc # "aborted") => ENABLED (Worker \/ DtorJoin)

\* C11: after a delivery attempt for the front frame of a media channel the
\* worker removes that frame: when broadcast() has returned, the worker's next
\* position is the pop_front of the channel it is at.
C11_MediaFrontRemoved ==
    [][(wpc = "bcast" /\ wpc' \notin {"bcast", "msend", "ub"}) => wpc' = "pop"]_vars

\* C12: pushFrame and pushFrame2 with an id that is not registered leave the
\* channel map as it is: no buffer, cache entry or gotIdr flag changes and no
\* channel is created, whatever the payload and whatever the channels hold.
C12_UnknownIdChangesNothing ==
    \A id \in UnknownIds : \A data \in PayloadsFor(id) \cup PayloadsFor("v") :
        /\ AfterPushFrame(channels, id, data, npushed + 1) = channels
        /\ AfterPushFrame2(channels, id, data, npushed + 1) = channels

\* a push with an unregistered id can be made while a channel holds frames
\* and a cached sync frame
C12_Witness ==
    /\ ProcessAlive
    /\ UnknownIds \cap DOMAIN channels = {}
    /\ \E id \in DOMAIN channels :
          /\ Len(channels[id].buffer) = channels[id].maxFrames
          /\ channels[id].gotIdr
          /\ channels[id].sps # <<>>

\* C13: while a send call on a sink is in progress the worker holds no
\* channel's mutex, so none of the mutexes a push acquires (only the target
\* channel's) is held across a send: the push is not kept waiting by it.
C13_PushNeverWaitsForSend ==
    Sending => /\ held \cap ChanIds = {}
               /\ \A id \in DOMAIN channels : PushLocks(id) \cap held = {}

\* a push to the channel was accepted after the send call was made and
\* before it returned
C13_Witness ==
    /\ Sending
    /\ Newest(Last(passLog).ch) # Last(passLog).newest

\* C14: a data channel whose delivery reported "not delivered" is not tried
\* again until a push has been accepted or the shutdown signal has been
\* given: the worker is not inside a delivery call for it while it is stale.
C14_RetryOnlyAfterSignal ==
    (wpc \in {"bdata", "dsend"}) => Cur \notin stale

\* C15: in one pass the worker removes from the channel it is at, after
\* delivering them, no more frames than the channel's buffer held when the
\* pass started (stated for a channel that held frames then).
C15_PassBoundedByStartLength ==
    startLen[Cur] > 0 => pops <= startLen[Cur]

\* C16: when delivery for a channel reports "not delivered" the worker
\* leaves that channel and goes on with the next channel of the map in the
\* same pass; the pass ends only after the last channel.
C16_LaterChannelsStillProcessed ==
    [][(wpc \in {"bdata", "bcast"} /\ wpc' \in {"peek", "top"})
          => IF wi < NChan THEN wpc' = "peek" /\ wi' = wi + 1
                           ELSE wpc' = "top"]_vars

\* the first channel is a data channel that reported "not delivered" and still
\* holds its frame; the worker has made a send call for a later channel
C16_Witness ==
    /\ wi > 1
    /\ wpc = "msend"
    /\ channels[Order[1]].kind = "data"
    /\ Order[1] \in stale
    /\ channels[Order[1]].buffer # <<>>
    /\ Last(passLog).ch = Cur

\* C17: every frame a media send call carries is the frame pushed to its
\* channel last at the moment broadcast() read the buffer for that send (the
\* back of the buffer), whatever frame the worker peeked at the front.
C17_MediaSendsNewest ==
    \A i \in 1..Len(passLog) :
        channels[passLog[i].ch].kind # "data"
            => passLog[i].frame = passLog[i].newest

\* a media send call carries a frame that is not the peeked front frame
C17_Witness ==
    /\ wpc = "msend"
    /\ Last(passLog).ch = Cur
    /\ frame # NoFrame
    /\ Last(passLog).frame # frame

\* C18: the send calls of a media delivery attempt made for the channel the
\* worker is at are all on sinks of that channel.
C18_SendsOnlyOnOwnChannel ==
    (wpc \in {"bcast", "msend"})
        => \A i \in 1..Len(passLog) : passLog[i].ch = Cur

\* C19: a thread that assigns a cache entry or the gotIdr flag of a channel
\* holds that channel's mutex while it does.
C19_CacheAccessUnderLock ==
    \A t \in Callers : \A id \in DOMAIN channels :
        WritesCache(t, id) => id \in p2[t].held

\* C20: while a send call on a sink is in progress the worker does not hold
\* clientMutex, so createPeer and handleOfferSync, which take it, can proceed.
C20_RegistryLockFreeDuringSend ==
    Sending => ~ClientMutexHeld

\* the payload of the frame of NAL type t pushed last in history h, <<>> if none
LastOfType(h, t) ==
    LET idx == {i \in 1..Len(h) : h[i].data # <<>> /\ NalType(h[i].data) = t}
    IN  IF idx = {} THEN <<>>
        ELSE h[CHOOSE i \in idx : \A j \in idx : j <= i].data

\* C21: after any sequence of pushes to a video channel its cache holds the
\* most recently pushed frame of each classified type (7: sps, 8: pps, 5: idr,
\* and gotIdr is set exactly when a type 5 frame was pushed); stated for the
\* channels whose whole push history is known, that is, every accepted push
\* went to the channel and no frame was removed from it.
C21_CacheHoldsLastOfEachType ==
    \A id \in DOMAIN channels :
        (channels[id].kind = "video" /\ Len(sincePop[id]) = npushed) =>
            /\ channels[id].sps = LastOfType(sincePop[id], NalSps)
            /\ channels[id].pps = LastOfType(sincePop[id], NalPps)
            /\ channels[id].idr = LastOfType(sincePop[id], NalIdr)
            /\ channels[id].gotIdr = (LastOfType(sincePop[id], NalIdr) # <<>>)

(***************************************************************************)
(* One push of any byte string.  pushFrame and pushFrame2 take any         *)
(* std::vector<uint8_t>: a media payload with any second byte, a payload   *)
(* shorter than an RTP header, and on an audio or a data channel a payload *)
(* whose first byte has the low bits of a parameter set or a sync frame.   *)
(***************************************************************************)
Bytes == 0..255
PShort1 == <<65>>
PShort3 == <<65, 96, 0>>
BytePayloads(id) ==
    IF id = "v" THEN {Pkt(65, b) : b \in Bytes} \cup {PIdr, PShort1, PShort3}
    ELSE IF id = "a" THEN {PAudio, PIdr}
    ELSE {PEmpty, PMsg, PSps}

InitBytes == Init /\ DOMAIN channels # {"d", "v"}

NextBytes ==
    \/ \E id \in ChanIds : \E data \in BytePayloads(id) :
            npushed < MaxPushesBytes /\ PushFrame(id, data)
    \/ \E id \in ChanIds : \E data \in BytePayloads(id) :
            npushed < MaxPushesBytes /\ PushFrame2(id, data)
    \/ Joins
    \/ SpuriousWake
    \/ Worker

SpecBytes == InitBytes /\ [][NextBytes]_vars

\* C22: a push to an audio or a data channel never changes that channel's
\* cache or its gotIdr flag, whatever the first byte of the payload is: the
\* cache of such a channel stays as addChannel created it.
C22_CacheOfVideoChannelsOnly ==
    \A id \in DOMAIN channels :
        channels[id].kind # "video" =>
            /\ channels[id].sps = <<>>
            /\ channels[id].pps = <<>>
            /\ channels[id].idr = <<>>
            /\ ~channels[id].gotIdr

\* C23: a frame with an empty payload is never passed to a sink, and when the
\* worker has found one at the front of a channel's buffer, the frame it then
\* removes without a delivery attempt has an empty payload.
C23_EmptyFrameDiscarded ==
    /\ \A i \in 1..Len(passLog) : passLog[i].frame.data # <<>>
    /\ wpc = "popempty" =>
          /\ channels[Cur].buffer # <<>>
          /\ Front(channels[Cur].buffer).data = <<>>

\* C24: once the gotIdr flag of a channel is true, no step (a push of any type,
\* an eviction, a step of a drain pass, a client joining) makes it false.
C24_GotIdrNeverReverts ==
    [][\A id \in DOMAIN channels :
          channels[id].gotIdr => (id \in DOMAIN channels' /\ channels'[id].gotIdr)]_vars

\* the flag is set, the sync frame that set it has been evicted, frames of
\* other types have been pushed since and a client has joined
C24_Witness ==
    \E id \in DOMAIN channels :
        /\ channels[id].gotIdr
        /\ Len(channels[id].buffer) = MaxFrames
        /\ \A i \in 1..Len(channels[id].buffer) :
              NalType(channels[id].buffer[i].data) # NalIdr
        /\ sinkOpen # {}

\* bitwise AND and OR of two naturals
RECURSIVE BitAnd(_, _)
BitAnd(a, b) ==
    IF a = 0 \/ b = 0 THEN 0
    ELSE (a % 2) * (b % 2) + 2 * BitAnd(a \div 2, b \div 2)
RECURSIVE BitOr(_, _)
BitOr(a, b) ==
    IF a = 0 THEN b
    ELSE IF b = 0 THEN a
    ELSE (IF a % 2 = 1 \/ b % 2 = 1 THEN 1 ELSE 0) + 2 * BitOr(a \div 2, b \div 2)

\* the 32-bit big-endian number at bytes 8..11 of a packet
SsrcField(data) ==
    ((data[9] * 256 + data[10]) * 256 + data[11]) * 256 + data[12]

\* the frames some push has stored in channel c
Pushed(c) == {sincePop[c][i] : i \in 1..Len(sincePop[c])}

\* C25: in every media send call, byte 1 of the outgoing copy is
\* (original byte 1 AND 0x80) OR 109, its source identifier field is 123456
\* and every other byte is the original one; the frame in the buffer is as it
\* was pushed; a data channel send call carries the pushed bytes unchanged.
C25_RewriteOnCopyOnly ==
    /\ \A i \in 1..Len(passLog) :
          LET e == passLog[i] IN
          /\ Len(e.data) = Len(e.frame.data)
          /\ IF channels[e.ch].kind = "data"
             THEN e.data = e.frame.data
             ELSE /\ e.data[2] = BitOr(BitAnd(e.frame.data[2], 128), 109)
                  /\ SsrcField(e.data) = 123456
                  /\ \A j \in 1..Len(e.data) :
                        j \notin {2, 9, 10, 11, 12} => e.data[j] = e.frame.data[j]
          /\ e.frame \in Pushed(e.ch)
    /\ \A c \in DOMAIN channels : \A i \in 1..Len(channels[c].buffer) :
          channels[c].buffer[i] \in Pushed(c)

\* a media send call for a packet whose second byte was 0xFF
C25_Witness ==
    \E i \in 1..Len(passLog) :
        /\ channels[passLog[i].ch].kind # "data"
        /\ passLog[i].frame.data[2] = 255
        /\ passLog[i].data[2] = 237
        /\ wpc = "msend"

\* the worker is blocked inside cv.wait and the destructor, having made its
\* notification, is blocked inside worker.join(): each waits for the other
ShutdownDeadlock == wpc = "waiting" /\ dpc = "join"

\* C26: every lock is taken in the order wait lock, client registry lock,
\* channel lock; a thread blocked in cv.wait holds no lock; and no interleaving
\* of pushes, joins, the worker loop and shutdown ends in a deadlock.
C26_NoDeadlock ==
    /\ ordered
    /\ wpc = "waiting" => held = {}
    /\ ~ShutdownDeadlock

\* C27: every sink a client entry holds was created on that client's own
\* connection, also when createPeer ran for other connections before the offer.
C27_SinksInOwnClientEntry ==
    \A k \in 1..Len(clients) :
        /\ \A c \in DOMAIN clients[k].tracks : clients[k].tracks[c][1] = clients[k].pc
        /\ \A c \in DOMAIN clients[k].dataChannels :
              clients[k].dataChannels[c][1] = clients[k].pc

(***************************************************************************)
(* addChannel called while the worker runs.  The constructor starts the    *)
(* worker thread before any channel exists, so every addChannel call is    *)
(* made next to a running worker; addChannel takes no lock.  No client is  *)
(* connected in this specification.                                        *)
(***************************************************************************)

\* the worker is inside 'for (auto &kv : channels)' of hasFramesReady() or loop()
Iterating ==
    wpc \in {"scan", "peek", "popempty", "pop", "bdata", "dsend", "bcast", "msend"}

\* the position in key order of the element an iterator points to, after id
\* has been inserted into the map
Shifted(i, id) ==
    IF i <= NChan /\ \E j \in 1..Len(ChanOrder) : \E k \in 1..Len(ChanOrder) :
           /\ ChanOrder[j] = id /\ ChanOrder[k] = Order[i] /\ j < k
    THEN i + 1 ELSE i

\* channels[id] = std::move(ch) for an id that is not registered.  An insertion
\* into a std::map that another thread is iterating is a data race: the
\* iteration goes on over the new map, or anything else happens.
AddChannel(id) ==
    /\ ProcessAlive
    /\ wpc # "ub"
    /\ id \notin DOMAIN channels
    /\ Cardinality(DOMAIN channels) < MaxChannels
    /\ channels' = [c \in (DOMAIN channels) \cup {id} |->
                       IF c = id THEN NewChannel(id) ELSE channels[c]]
    /\ IF Iterating
         THEN /\ wpc' \in {wpc, "ub"}
              /\ wi' = Shifted(wi, id)
              /\ bj' = Shifted(bj, id)
         ELSE UNCHANGED <<wpc, wi, bj>>
    /\ UNCHANGED <<clients, sinkOpen, offered, running, frame, ci, sent, dpc, npushed,
                   sincePop, passLog, sentTs, held, ordered, p2, stale, startLen,
                   pops>>

\* the state the constructor leaves: the worker started, no channel
InitAdd ==
    /\ channels = [id \in {} |-> NewChannel(id)]
    /\ clients = <<>>
    /\ sinkOpen = {}
    /\ offered = {}
    /\ running = TRUE
    /\ wpc = "top"
    /\ wi = 1
    /\ frame = NoFrame
    /\ ci = 1
    /\ sent = FALSE
    /\ dpc = "none"
    /\ npushed = 0
    /\ sincePop = [id \in ChanIds |-> <<>>]
    /\ passLog = <<>>
    /\ sentTs = [k \in 1..MaxClients |-> [id \in DataIds |-> <<>>]]
    /\ bj = 1
    /\ held = {}
    /\ p2 = [t \in Callers |-> NoCall]
    /\ stale = {}
    /\ startLen = [id \in ChanIds |-> 0]
    /\ pops = 0
    /\ ordered = TRUE

NextAdd ==
    \/ \E id \in ChanIds : AddChannel(id)
    \/ \E id \in ChanIds : \E data \in PayloadsFor(id) : PushFrame(id, data)
    \/ SpuriousWake
    \/ WorkerTop
    \/ PredRunning
    \/ HasFramesReadyStep
    \/ WaitBlock
    \/ AfterWait
    \/ Peek
    \/ PopEmpty
    \/ BroadcastDataReturn
    \/ BroadcastReturn

SpecAdd == InitAdd /\ [][NextAdd]_vars

\* C28: the channel map is never modified by addChannel while the worker is
\* iterating it.
C28_NoAddChannelDuringIteration ==
    [][DOMAIN channels' # DOMAIN channels => ~Iterating]_vars

\* C29: on a data channel no pushed item is sent to the sink of one client
\* more than once: the items a client's sink has accepted are all different.
C29_NoItemSentTwice ==
    \A k \in 1..Len(clients) : \A id \in DataIds :
        \A i \in 1..Len(sentTs[k][id]) : \A j \in 1..Len(sentTs[k][id]) :
            i # j => sentTs[k][id][i] # sentTs[k][id][j]

\* two clients have been sent items of one data channel, one of them three
C29_Witness ==
    \E id \in DataIds :
        /\ Len(clients) = 2
        /\ Len(sentTs[1][id]) + Len(sentTs[2][id]) >= 3
        /\ sentTs[1][id] # <<>>
        /\ sentTs[2][id] # <<>>

\* the worker is about to rewrite the header of a copy that is shorter than an
\* RTP header: the write to byte 1 or to bytes 8..11 lands past its end
RewritePastEnd ==
    /\ wpc = "ub"
    /\ Latest(Order[bj]).data # <<>>
    /\ Len(Latest(Order[bj]).data) < RtpHeaderLen

\* C30: the header rewrite is applied only to payloads long enough to hold the
\* fields it writes: media delivery never writes at an index at or past the
\* length of a frame shorter than 12 bytes.
C30_RewriteWithinPayload == ~RewritePastEnd

====
